---- MODULE Spec2Model ----
(***************************************************************************)
(* gitops-script.py: a GitOps helper that pauses / resumes continuous      *)
(* delivery and promotes image versions by editing YAML manifests through  *)
(* the GitHub API on a freshly created branch, then opens a pull request.  *)
(*                                                                         *)
(* The remote repository is the only shared state.  Each remote API call   *)
(* of an invocation is one atomic step; the local YAML work that follows a *)
(* read belongs to the step of that read, and get_branch belongs to the    *)
(* step of create_git_ref (it reads the head of the default branch, which  *)
(* no call of the script moves).  Two invocations of the script run        *)
(* concurrently against the same remote repository.                        *)
(***************************************************************************)
EXTENDS Integers, Sequences, FiniteSets, TLC

VARIABLES fixture, branches, pulls, inv, ed

vars == <<fixture, branches, pulls, inv, ed>>

(***************************************************************************)
(* Bounds and finite domains                                               *)
(***************************************************************************)
NumServices == 2

MaxParams == 2

MaxEdits == 2

Services == 1..NumServices

Envs == {"dev", "prod"}

Invocations == {"i1", "i2"}

Dates == {"2024-01-01"}

Tags == {"v1", "v2"}

NoEnv == "none"

\* environments a caller may name; "qa" has no directory in the repository
TargetEnvs == Envs \cup {"qa"}

(***************************************************************************)
(* Names                                                                   *)
(***************************************************************************)
\* repo.default_branch
DefaultBranch == <<"main", "", "">>

\* f'argocd-image-updater.argoproj.io/{service}.ignore-tags'
Key(service) == <<"argocd-image-updater.argoproj.io/ignore-tags", service>>

\* an annotation the script never touches
OtherKey == <<"a", 0>>

\* f'environments/{env}/{service}/application.yaml'
FilePath(env, service) == <<env, service>>

\* new_branch of main(): f'pause-{target_env}-{today}', f'resume-...', f'prod-push-{today}'
BranchName(action, target_env, today) ==
  IF action = "push" THEN <<"prod-push", "", today>>
  ELSE <<action, target_env, today>>

\* PR titles of main()
Title(action, target_env) ==
  CASE action = "pause" -> <<"Freeze", target_env>>
    [] action = "resume" -> <<"Unfreeze", target_env>>
    [] OTHER -> <<"Production Push.", "">>

(***************************************************************************)
(* YAML documents                                                          *)
(***************************************************************************)
Absent == [kind |-> "absent"]

EmptyMap == [k \in {} |-> ""]

Param(n, v) == [name |-> n, value |-> v]

\* a file holds a document in some textual form: "raw" as committed by hand,
\* "dumped" as yaml.dump writes it (sorted keys, block style, explicit start)
File(hasAnn, ann, hasParams, params, text) ==
  [kind |-> "file", hasAnn |-> hasAnn, ann |-> ann,
   hasParams |-> hasParams, params |-> params, text |-> text]

\* yaml.safe_load(contents.decoded_content.decode()): the data, without its text form
SafeLoad(content) ==
  [hasAnn |-> content.hasAnn, ann |-> content.ann,
   hasParams |-> content.hasParams, params |-> content.params]

\* yaml.dump(app, default_flow_style=False, explicit_start=True)
Dump(app) == File(app.hasAnn, app.ann, app.hasParams, app.params, "dumped")

\* the blob SHA of a file: a hash of its bytes, one value per distinct content
Sha(content) == content

\* dict[key] = value
Put(f, k, v) == [x \in (DOMAIN f) \cup {k} |-> IF x = k THEN v ELSE f[x]]

\* dict.pop(key, None)
Pop(f, k) == [x \in (DOMAIN f) \ {k} |-> f[x]]

(***************************************************************************)
(* The manifest edits                                                      *)
(***************************************************************************)
\* app['metadata']['annotations'] raises when the manifest has no annotations
PauseRaises(app, service) == ~app.hasAnn

\* the annotation map replaced instead of extended
PauseEditReplace(app, service) == [app EXCEPT !.ann = Put(EmptyMap, Key(service), "*")]

PauseEdit(app, service) == [app EXCEPT !.ann = Put(@, Key(service), "*")]

\* del annotations[key] instead of pop(key, None): KeyError when the key is absent
ResumeRaisesDel(app, service) == ~app.hasAnn \/ Key(service) \notin DOMAIN app.ann

ResumeRaises(app, service) == ~app.hasAnn

ResumeEdit(app, service) == [app EXCEPT !.ann = Pop(@, Key(service))]

\* the loop of update_versions over app['spec']['source']['helm']['parameters']
RECURSIVE KeepOthers(_)
KeepOthers(params) ==
  IF params = <<>> THEN <<>>
  ELSE IF Head(params).name # "image.tag"
       THEN <<Head(params)>> \o KeepOthers(Tail(params))
       ELSE KeepOthers(Tail(params))

\* the new image.tag appended to the unfiltered list
NewParamsUnfiltered(params, version) == Append(params, Param("image.tag", version))

NewParams(params, version) == Append(KeepOthers(params), Param("image.tag", version))

\* versions[service.name] raises KeyError when the mapping has no such key
UpdateRaises(app, versions, service) ==
  \/ ~app.hasParams
  \/ service \notin DOMAIN versions

UpdateEdit(app, versions, service) ==
  [app EXCEPT !.params = NewParams(@, versions[service])]

\* app_yaml of pause, of resume, of update_versions
PauseYaml(app, service) == Dump(PauseEdit(app, service))

ResumeYaml(app, service) == Dump(ResumeEdit(app, service))

UpdateYaml(app, versions, service) == Dump(UpdateEdit(app, versions, service))

\* the loop left at the first image.tag (a break after the assignment)
ScanTagFirst(params, versions, service) ==
  IF \E n \in 1..Len(params) : params[n].name = "image.tag"
  THEN LET n == CHOOSE n \in 1..Len(params) :
                  /\ params[n].name = "image.tag"
                  /\ \A m \in 1..(n - 1) : params[m].name # "image.tag"
       IN Put(versions, service, params[n].value)
  ELSE versions

\* the mapping given a default entry when the file names no image.tag
ScanTagDefault(params, versions, service) ==
  IF \E n \in 1..Len(params) : params[n].name = "image.tag"
  THEN LET n == CHOOSE n \in 1..Len(params) :
                  /\ params[n].name = "image.tag"
                  /\ \A m \in (n + 1)..Len(params) : params[m].name # "image.tag"
       IN Put(versions, service, params[n].value)
  ELSE Put(versions, service, "latest")

\* the loop of get_versions over params['helm']['parameters']: the last image.tag wins
RECURSIVE ScanTag(_, _, _)
ScanTag(params, versions, service) ==
  IF params = <<>> THEN versions
  ELSE ScanTag(Tail(params),
               IF Head(params).name = "image.tag"
               THEN Put(versions, service, Head(params).value)
               ELSE versions,
               service)

(***************************************************************************)
(* The remote repository at construction                                   *)
(***************************************************************************)
Good(env, service) ==
  IF env = "prod"
  THEN File(TRUE, Put(EmptyMap, OtherKey, "1"), TRUE,
            <<Param("replicas", "3"), Param("image.tag", "v0")>>, "raw")
  ELSE File(TRUE, Put(Put(EmptyMap, OtherKey, "1"), Key(service), "*"), TRUE,
            <<Param("image.tag", "v1"), Param("replicas", "3")>>, "dumped")

\* a manifest with neither metadata.annotations nor spec.source.helm.parameters
Bare == File(FALSE, EmptyMap, FALSE, <<>>, "raw")

\* the environment whose manifests may be defective, the one whose tracking files may be
DefectEnv == "prod"

TrackEnv == "dev"

ManifestDefects == {"absent", "bare"}

TrackDefects == {"nochart", "absent", "notag", "twotags"}

\* one repository per choice: every manifest and tracking file is well formed, except
\* at most one manifest (of service msvc in DefectEnv) and at most one tracking file
\* (of service tsvc for TrackEnv); 0 names no service
Fixtures ==
  {fx \in [msvc : 0..NumServices, mkind : ManifestDefects,
           tsvc : 0..NumServices, tkind : TrackDefects] :
     /\ fx.msvc = 0 => fx.mkind = "absent"
     /\ fx.tsvc = 0 => fx.tkind = "absent"}

\* application.yaml of every service directory of every environment, default branch
Manifests(fx) ==
  [p \in Envs \X Services |->
     IF p[1] = DefectEnv /\ p[2] = fx.msvc
     THEN (IF fx.mkind = "absent" THEN Absent ELSE Bare)
     ELSE Good(p[1], p[2])]

\* repo.get_contents(f'environments/{env}'): the service directories, in listing order
EnvDir(fx, env) == IF env \in Envs THEN [k \in 1..NumServices |-> k] ELSE <<>>

RECURSIVE Without(_, _)
Without(seq, x) ==
  IF seq = <<>> THEN <<>>
  ELSE IF Head(seq) = x THEN Without(Tail(seq), x)
       ELSE <<Head(seq)>> \o Without(Tail(seq), x)

\* repo.get_contents('helm-charts'): the chart directories, in listing order
ChartsDir(fx) ==
  IF fx.tkind = "nochart" /\ fx.tsvc # 0 THEN Without([k \in 1..NumServices |-> k], fx.tsvc)
  ELSE [k \in 1..NumServices |-> k]

\* helm-charts/{service}/.argocd-source-{service}-{env}.yaml on the default branch
Track(fx, service, env) ==
  IF env = TrackEnv /\ service = fx.tsvc /\ fx.tkind # "nochart"
  THEN CASE fx.tkind = "absent" -> Absent
         [] fx.tkind = "notag" -> [kind |-> "file", params |-> <<Param("replicas", "3")>>]
         [] OTHER -> [kind |-> "file",
                      params |-> <<Param("image.tag", "v1"), Param("replicas", "3"),
                                   Param("image.tag", "v2")>>]
  ELSE [kind |-> "file", params |-> <<Param("replicas", "3"), Param("image.tag", "v1")>>]

(***************************************************************************)
(* The GitHub API calls the script makes                                   *)
(***************************************************************************)
\* the ref force-updated when it exists (edit with force=True instead of create)
CreateGitRefForce(brs, branch, head) ==
  [ok |-> TRUE,
   branches |-> [b \in (DOMAIN brs) \cup {branch} |-> IF b = branch THEN head ELSE brs[b]]]

\* repo.create_git_ref(ref='refs/heads/' + branch, sha=sb.commit.sha):
\* refused when the ref exists, else the branch starts at the given commit
CreateGitRef(brs, branch, head) ==
  IF branch \in DOMAIN brs
  THEN [ok |-> FALSE, branches |-> brs]
  ELSE [ok |-> TRUE,
        branches |-> [b \in (DOMAIN brs) \cup {branch} |->
                        IF b = branch THEN head ELSE brs[b]]]

\* repo.update_file(path, message, content, sha, branch=branch): one commit on
\* `branch`, refused unless `sha` is the blob SHA of the file on that branch
UpdateFile(brs, path, message, content, sha, branch, by) ==
  IF /\ branch \in DOMAIN brs
     /\ brs[branch].files[path].kind = "file"
     /\ Sha(brs[branch].files[path]) = sha
  THEN [ok |-> TRUE,
        branches |-> [brs EXCEPT ![branch] =
                        [files |-> [@.files EXCEPT ![path] = content],
                         log |-> Append(@.log, [msg |-> message, by |-> by])]]]
  ELSE [ok |-> FALSE, branches |-> brs]

\* repo.create_pull(base=base, head=branch, title=title)
CreatePull(pls, base, head, title, by) ==
  Append(pls, [base |-> base, head |-> head, title |-> title, by |-> by])

(***************************************************************************)
(* One invocation of the script                                            *)
(***************************************************************************)
ActionSet == {"pause", "resume", "push", "other"}

NoBranch == <<"", "", "">>

NoVersions == [s \in {} |-> ""]

NoContents == [path |-> FilePath(NoEnv, 0), body |-> Absent, sha |-> Absent]

Idle ==
  [pc |-> "idle", action |-> "", target |-> NoEnv, source |-> NoEnv, today |-> "",
   branch |-> NoBranch, services |-> <<>>, idx |-> 0, contents |-> NoContents,
   versions |-> NoVersions, ops |-> <<>>, at |-> "", fail |-> ""]

\* a remote call an invocation has made
Op(name, service, ok) == [op |-> name, service |-> service, ok |-> ok]

\* the exception swallowed inside the loop (try/except: continue): a failing read
\* skips the service and the loop goes on
RaiseSkip(i, reason, ops) ==
  IF inv[i].pc = "get"
  THEN [inv EXCEPT ![i].at = inv[i].pc, ![i].fail = reason, ![i].ops = ops,
                   ![i].pc = IF inv[i].idx < Len(inv[i].services) THEN "get" ELSE "create_pr",
                   ![i].idx = IF inv[i].idx < Len(inv[i].services) THEN @ + 1 ELSE @]
  ELSE [inv EXCEPT ![i].pc = "failed", ![i].at = inv[i].pc, ![i].fail = reason,
                   ![i].ops = ops, ![i].contents = NoContents]

\* an unhandled exception: the process ends where it stands
Raise(i, reason, ops) ==
  [inv EXCEPT ![i].pc = "failed", ![i].at = inv[i].pc, ![i].fail = reason,
              ![i].ops = ops, ![i].contents = NoContents]

EdIdle == [service |-> 0, hist |-> <<>>, log |-> <<>>]

(***************************************************************************)
(* main(): get_repo, options, the branch name                              *)
(***************************************************************************)
\* i2 names the invocation that starts second
Start(i) ==
  /\ inv[i].pc = "idle"
  /\ i = "i2" => inv["i1"].pc # "idle"
  /\ \E hasToken \in BOOLEAN, action \in ActionSet, target \in TargetEnvs, today \in Dates :
       \E source \in (IF action = "push" THEN Envs ELSE {NoEnv}) :
         inv' = IF ~hasToken
                THEN Raise(i, "no token", <<>>)
                ELSE [inv EXCEPT ![i].action = action, ![i].target = target,
                                 ![i].source = source, ![i].today = today,
                                 ![i].branch = IF action = "other" THEN NoBranch
                                               ELSE BranchName(action, target, today),
                                 ![i].pc = IF action = "other" THEN "done"
                                           ELSE "create_branch"]
  /\ UNCHANGED <<fixture, branches, pulls, ed>>

\* create_branch(repo, branch)
CreateBranch(i) ==
  /\ inv[i].pc = "create_branch"
  /\ LET sb == branches[DefaultBranch]
         r == CreateGitRef(branches, inv[i].branch, sb)
         ops == Append(inv[i].ops, Op("create_git_ref", 0, r.ok))
     IN /\ branches' = r.branches
        /\ inv' = IF r.ok
                  THEN [inv EXCEPT ![i].ops = ops,
                                   ![i].pc = IF inv[i].action = "push" THEN "gv_list"
                                             ELSE "list"]
                  ELSE Raise(i, "reference already exists", ops)
  /\ UNCHANGED <<fixture, pulls, ed>>

\* services = repository.get_contents(env_dir) of main(), or of update_versions
ListServices(i) ==
  /\ inv[i].pc \in {"list", "uv_list"}
  /\ LET services == EnvDir(fixture, inv[i].target)
         ops == Append(inv[i].ops, Op("get_contents_dir", 0, services # <<>>))
     IN inv' = IF services = <<>>
               THEN Raise(i, "not found", ops)
               ELSE [inv EXCEPT ![i].ops = ops, ![i].services = services,
                                ![i].idx = 1, ![i].pc = "get"]
  /\ UNCHANGED <<fixture, branches, pulls, ed>>

\* the edit an action makes to one manifest raises
EditRaises(i, app, service) ==
  CASE inv[i].action = "pause" -> PauseRaises(app, service)
    [] inv[i].action = "resume" -> ResumeRaises(app, service)
    [] OTHER -> UpdateRaises(app, inv[i].versions, service)

\* app_yaml of pause, resume, update_versions
AppYaml(i, app, service) ==
  CASE inv[i].action = "pause" -> PauseYaml(app, service)
    [] inv[i].action = "resume" -> ResumeYaml(app, service)
    [] OTHER -> UpdateYaml(app, inv[i].versions, service)

\* commit messages of pause, resume, update_versions
Message(action, service, env) ==
  CASE action = "pause" -> <<"Pause", service, env>>
    [] action = "resume" -> <<"Resume", service, env>>
    [] OTHER -> <<"Updated", service, env>>

\* which branch get_contents reads: ref=repo.default_branch
ReadRef(i) == DefaultBranch

\* contents = repo.get_contents(file_path, ref=repo.default_branch), then the YAML edit
GetContents(i) ==
  /\ inv[i].pc = "get"
  /\ LET service == inv[i].services[inv[i].idx]
         path == FilePath(inv[i].target, service)
         body == branches[ReadRef(i)].files[path]
         ops == Append(inv[i].ops, Op("get_contents", service, body.kind = "file"))
     IN inv' = IF body.kind # "file"
               THEN Raise(i, "not found", ops)
               ELSE IF EditRaises(i, SafeLoad(body), service)
               THEN Raise(i, "key error", ops)
               ELSE [inv EXCEPT ![i].ops = ops, ![i].pc = "update",
                                ![i].contents =
                                  [path |-> path, sha |-> Sha(body),
                                   body |-> AppYaml(i, SafeLoad(body), service)]]
  /\ UNCHANGED <<fixture, branches, pulls, ed>>

\* update_file called without branch=: the API then commits to the default branch
WriteDefault(i) == DefaultBranch

\* which branch update_file commits to: branch=branch
WriteBranch(i) == inv[i].branch

\* create_pr indented into the loop: the pull request follows the first write
AfterFirstUpdate(i) == [pc |-> "create_pr", idx |-> inv[i].idx]

\* where the loop over the services goes after a write
AfterUpdate(i) ==
  IF inv[i].idx < Len(inv[i].services)
  THEN [pc |-> "get", idx |-> inv[i].idx + 1]
  ELSE [pc |-> "create_pr", idx |-> inv[i].idx]

\* repo.update_file(contents.path, message, app_yaml, contents.sha, branch=branch)
UpdateContents(i) ==
  /\ inv[i].pc = "update"
  /\ LET service == inv[i].services[inv[i].idx]
         c == inv[i].contents
         r == UpdateFile(branches, c.path,
                         Message(inv[i].action, service, inv[i].target),
                         c.body, c.sha, WriteBranch(i), i)
         ops == Append(inv[i].ops, Op("update_file", service, r.ok))
         nxt == AfterUpdate(i)
     IN /\ branches' = r.branches
        /\ inv' = IF r.ok
                  THEN [inv EXCEPT ![i].ops = ops, ![i].contents = NoContents,
                                   ![i].pc = nxt.pc, ![i].idx = nxt.idx]
                  ELSE Raise(i, "sha mismatch", ops)
  /\ UNCHANGED <<fixture, pulls, ed>>

\* services = repo.get_contents(charts_dir) of get_versions
ListCharts(i) ==
  /\ inv[i].pc = "gv_list"
  /\ LET services == ChartsDir(fixture)
         ops == Append(inv[i].ops, Op("get_contents_dir", 0, services # <<>>))
     IN inv' = IF services = <<>>
               THEN Raise(i, "not found", ops)
               ELSE [inv EXCEPT ![i].ops = ops, ![i].services = services,
                                ![i].idx = 1, ![i].pc = "gv_get"]
  /\ UNCHANGED <<fixture, branches, pulls, ed>>

\* one turn of the loop of get_versions: read the tracking file, scan its parameters
GetVersion(i) ==
  /\ inv[i].pc = "gv_get"
  /\ LET service == inv[i].services[inv[i].idx]
         body == Track(fixture, service, inv[i].source)
         ops == Append(inv[i].ops, Op("get_contents", service, body.kind = "file"))
         last == inv[i].idx = Len(inv[i].services)
     IN inv' = IF body.kind # "file"
               THEN Raise(i, "not found", ops)
               ELSE [inv EXCEPT ![i].ops = ops,
                                ![i].versions = ScanTag(body.params, @, service),
                                ![i].idx = IF last THEN 0 ELSE @ + 1,
                                ![i].services = IF last THEN <<>> ELSE @,
                                ![i].pc = IF last THEN "uv_list" ELSE "gv_get"]
  /\ UNCHANGED <<fixture, branches, pulls, ed>>

\* create_pr(repo, branch, title)
CreatePr(i) ==
  /\ inv[i].pc = "create_pr"
  /\ pulls' = CreatePull(pulls, DefaultBranch, inv[i].branch,
                         Title(inv[i].action, inv[i].target), i)
  /\ inv' = [inv EXCEPT ![i].ops = Append(@, Op("create_pull", 0, TRUE)),
                        ![i].pc = "done"]
  /\ UNCHANGED <<fixture, branches, ed>>

Init ==
  /\ fixture \in Fixtures
  /\ branches = [b \in {DefaultBranch} |-> [files |-> Manifests(fixture), log |-> <<>>]]
  /\ pulls = <<>>
  /\ inv = [i \in Invocations |-> Idle]
  /\ ed = EdIdle

Next ==
  \E i \in Invocations :
    \/ Start(i)
    \/ CreateBranch(i)
    \/ ListServices(i)
    \/ GetContents(i)
    \/ UpdateContents(i)
    \/ ListCharts(i)
    \/ GetVersion(i)
    \/ CreatePr(i)

Spec == Init /\ [][Next]_vars

(***************************************************************************)
(* The edits alone: pause, resume and update_versions applied in sequence  *)
(* to one manifest file (each reads the file the previous one wrote)       *)
(***************************************************************************)
AnnValues == {"1", "*"}

\* annotation maps: OtherKey absent or "1", each service's ignore-tags key absent or set
AnnMaps ==
  UNION {[D -> AnnValues] : D \in SUBSET ({OtherKey} \cup {Key(s) : s \in Services})}

ParamSet == {Param("replicas", "3")} \cup {Param("image.tag", t) : t \in Tags}

ParamLists == UNION {[1..n -> ParamSet] : n \in 0..MaxParams}

EditFiles ==
  {File(TRUE, a, TRUE, ps, "raw") : a \in {m \in AnnMaps : OtherKey \in DOMAIN m => m[OtherKey] = "1"},
                                    ps \in ParamLists}
  \cup {File(FALSE, EmptyMap, TRUE, ps, "raw") : ps \in ParamLists}
  \cup {File(TRUE, a, FALSE, <<>>, "raw") : a \in {m \in AnnMaps : OtherKey \notin DOMAIN m}}

\* the versions mappings handed to update_versions: no key for the service, or a tag
EditVersions(service) == {NoVersions, [s \in {service} |-> "v2"]}

\* the file as the last edit left it
Current == ed.hist[Len(ed.hist)]

\* hist[n + 1] is the file after edit log[n] of hist[n]; an edit that raises writes nothing
Edited(op, versions, raised, body) ==
  [ed EXCEPT !.hist = Append(@, IF raised THEN Current ELSE body),
             !.log = Append(@, [op |-> op, versions |-> versions, raised |-> raised])]

\* pause(env, service) on the file
EditPause ==
  /\ ed.service # 0 /\ Len(ed.log) < MaxEdits
  /\ LET app == SafeLoad(Current)
         raised == PauseRaises(app, ed.service)
     IN ed' = Edited("pause", NoVersions, raised,
                     IF raised THEN Current ELSE PauseYaml(app, ed.service))
  /\ UNCHANGED <<fixture, branches, pulls, inv>>

\* resume(env, service) on the file
EditResume ==
  /\ ed.service # 0 /\ Len(ed.log) < MaxEdits
  /\ LET app == SafeLoad(Current)
         raised == ResumeRaises(app, ed.service)
     IN ed' = Edited("resume", NoVersions, raised,
                     IF raised THEN Current ELSE ResumeYaml(app, ed.service))
  /\ UNCHANGED <<fixture, branches, pulls, inv>>

\* one turn of update_versions(env, versions) on the file
EditUpdate ==
  /\ ed.service # 0 /\ Len(ed.log) < MaxEdits
  /\ \E versions \in EditVersions(ed.service) :
       LET app == SafeLoad(Current)
           raised == UpdateRaises(app, versions, ed.service)
       IN ed' = Edited("update", versions, raised,
                       IF raised THEN Current ELSE UpdateYaml(app, versions, ed.service))
  /\ UNCHANGED <<fixture, branches, pulls, inv>>

InitEdit ==
  /\ fixture = CHOOSE fx \in Fixtures : fx.msvc = 0 /\ fx.tsvc = 0
  /\ branches = [b \in {DefaultBranch} |-> [files |-> Manifests(fixture), log |-> <<>>]]
  /\ pulls = <<>>
  /\ inv = [i \in Invocations |-> Idle]
  /\ \E service \in Services, body \in EditFiles :
       ed = [service |-> service, hist |-> <<body>>, log |-> <<>>]

NextEdit == EditPause \/ EditResume \/ EditUpdate

SpecEdit == InitEdit /\ [][NextEdit]_vars

(***************************************************************************)
(* Vocabulary of the properties                                            *)
(***************************************************************************)
Range(seq) == {seq[k] : k \in 1..Len(seq)}

Recognised == {"pause", "resume", "push"}

\* the pull requests invocation i opened
PullsBy(i) == {k \in 1..Len(pulls) : pulls[k].by = i}

\* the commits invocation i made on branch b, oldest first
CommitsBy(b, i) == SelectSeq(branches[b].log, LAMBDA c : c.by = i)

\* invocation i's create_branch succeeded
Created(i) == \E k \in 1..Len(inv[i].ops) : inv[i].ops[k] = Op("create_git_ref", 0, TRUE)

\* invocation i's update_file for service s succeeded
Wrote(i, s) == \E k \in 1..Len(inv[i].ops) : inv[i].ops[k] = Op("update_file", s, TRUE)

\* invocation i is, or ended, inside its loop over the services of the target environment
InLoop(i) ==
  \/ inv[i].pc \in {"get", "update"}
  \/ inv[i].pc = "failed" /\ inv[i].at \in {"get", "update"}

\* the commit messages the first n turns of invocation i's loop leave
FirstCommits(i, n) ==
  [k \in 1..n |-> [msg |-> Message(inv[i].action, inv[i].services[k], inv[i].target),
                   by |-> i]]

(***************************************************************************)
(* C1: every file write of an invocation lands on the branch that same     *)
(* invocation created, never on the default branch: the default branch     *)
(* holds the files it held at the start, whether invocations complete or   *)
(* fail partway.                                                           *)
(***************************************************************************)
C1_WritesOnlyOwnBranch ==
  /\ branches[DefaultBranch] = [files |-> Manifests(fixture), log |-> <<>>]
  /\ \A b \in DOMAIN branches : \A k \in 1..Len(branches[b].log) :
       LET c == branches[b].log[k]
       IN b # DefaultBranch /\ b = inv[c.by].branch /\ Created(c.by)
  /\ \A i \in Invocations : \A s \in Services :
       Wrote(i, s) => /\ Created(i)
                      /\ branches[inv[i].branch].files[FilePath(inv[i].target, s)].text = "dumped"

\* one invocation completed all its writes, the other failed after its first write
C1_Witness ==
  \E i, j \in Invocations :
    /\ inv[i].pc = "done" /\ inv[i].action \in Recognised
    /\ Len(CommitsBy(inv[i].branch, i)) = NumServices
    /\ inv[j].pc = "failed" /\ inv[j].at = "get" /\ inv[j].idx = 2
    /\ Len(CommitsBy(inv[j].branch, j)) = 1
    /\ branches[DefaultBranch].files = Manifests(fixture)

(***************************************************************************)
(* C5: an invocation opens at most one pull request, and exactly one when  *)
(* a pause, resume or push completes; its head is the branch the           *)
(* invocation created and its base the default branch; it is opened only   *)
(* after create_branch succeeded and the write of every service of the     *)
(* loop succeeded, and it is the last remote operation of the run.         *)
(***************************************************************************)
C5_PullRequestOnceAndLast ==
  \A i \in Invocations :
    /\ Cardinality(PullsBy(i)) <= 1
    /\ (inv[i].pc = "done" /\ inv[i].action \in Recognised) => Cardinality(PullsBy(i)) = 1
    /\ \A k \in PullsBy(i) :
         LET ops == inv[i].ops
         IN /\ pulls[k].head = inv[i].branch /\ pulls[k].base = DefaultBranch
            /\ pulls[k].head # pulls[k].base
            /\ pulls[k].title = Title(inv[i].action, inv[i].target)
            /\ Created(i) /\ inv[i].branch \in DOMAIN branches
            /\ EnvDir(fixture, inv[i].target) # <<>>
            /\ \A s \in Range(EnvDir(fixture, inv[i].target)) : Wrote(i, s)
            /\ ops[Len(ops)].op = "create_pull"
            /\ \A n \in 1..(Len(ops) - 1) : ops[n].op # "create_pull" /\ ops[n].ok
            /\ inv[i].pc = "done"

\* a push has completed and opened its pull request while the other invocation is still writing
C5_Witness ==
  \E i, j \in Invocations :
    /\ inv[i].pc = "done" /\ inv[i].action = "push"
    /\ \E k \in PullsBy(i) : pulls[k].head = BranchName("push", inv[i].target, inv[i].today)
    /\ inv[j].pc = "update" /\ PullsBy(j) = {}

(***************************************************************************)
(* C6: when a step of the loop over the services fails at the k-th         *)
(* service, the process ends there with no rollback: the working branch    *)
(* still exists and carries exactly the commits of the first k-1 services, *)
(* the k-th and later services have no write, and no pull request is open. *)
(***************************************************************************)
C6_PartialFailureNoRollback ==
  \A i \in Invocations :
    (inv[i].fail # "" /\ inv[i].at \in {"get", "update"}) =>
      LET k == inv[i].idx
          b == inv[i].branch
      IN /\ inv[i].pc = "failed"
         /\ b \in DOMAIN branches
         /\ k \in 1..Len(inv[i].services)
         /\ branches[b].log = FirstCommits(i, k - 1)
         /\ \A n \in 1..Len(inv[i].services) :
              LET path == FilePath(inv[i].target, inv[i].services[n])
              IN IF n < k
                 THEN Wrote(i, inv[i].services[n]) /\ branches[b].files[path].text = "dumped"
                 ELSE /\ ~Wrote(i, inv[i].services[n])
                      /\ branches[b].files[path] = Manifests(fixture)[path]
         /\ PullsBy(i) = {}
         /\ \A n \in 1..Len(pulls) : pulls[n].head # b
         /\ inv[i].ops[Len(inv[i].ops)].service = inv[i].services[k]

\* a pause failed at its second service after committing the first
C6_Witness ==
  \E i \in Invocations :
    /\ inv[i].pc = "failed" /\ inv[i].at = "get" /\ inv[i].action = "pause"
    /\ inv[i].idx = 2 /\ Len(branches[inv[i].branch].log) = 1

(***************************************************************************)
(* C7 (as claimed): concurrent invocations against the same environment    *)
(* race on the files, the SHA precondition making the second write fail.   *)
(* Stated for the runs in which the race could show: when both invocations *)
(* created their branch, target the same environment, attempted to write   *)
(* the same file and have run to their end, one of the writes was refused. *)
(***************************************************************************)
C7_SecondWriteFailsOnSha ==
  \A i, j \in Invocations :
    (/\ i # j /\ Created(i) /\ Created(j)
     /\ inv[i].target = inv[j].target
     /\ inv[i].pc = "done" /\ inv[j].pc = "done"
     /\ \E s \in Services :
          /\ \E n \in 1..Len(inv[i].ops) : inv[i].ops[n].op = "update_file" /\ inv[i].ops[n].service = s
          /\ \E n \in 1..Len(inv[j].ops) : inv[j].ops[n].op = "update_file" /\ inv[j].ops[n].service = s)
    => \E x \in {i, j} : \E n \in 1..Len(inv[x].ops) :
         inv[x].ops[n].op = "update_file" /\ ~inv[x].ops[n].ok

(***************************************************************************)
(* C7 (amended): no interleaving of two invocations makes a file write     *)
(* fail on the SHA precondition.  Each invocation reads the file from the  *)
(* default branch and writes it to its own branch, where the file still    *)
(* has the blob SHA that was read, so every attempted write succeeds; two  *)
(* invocations never hold the same branch: of two that compute the same    *)
(* name, the second fails in create_branch and writes nothing.             *)
(***************************************************************************)
C7_NoWriteFailsOnSha ==
  /\ \A i \in Invocations :
       /\ inv[i].fail # "sha mismatch"
       /\ \A n \in 1..Len(inv[i].ops) : inv[i].ops[n].op = "update_file" => inv[i].ops[n].ok
       /\ inv[i].pc = "update" =>
            /\ inv[i].branch \in DOMAIN branches
            /\ Sha(branches[inv[i].branch].files[inv[i].contents.path]) = inv[i].contents.sha
  /\ \A i, j \in Invocations :
       (i # j /\ inv[i].branch = inv[j].branch /\ inv[i].branch # NoBranch) =>
         /\ ~(Created(i) /\ Created(j))
         /\ (inv[i].pc \notin {"create_branch"} /\ inv[j].pc \notin {"create_branch"}) =>
              \E x \in {i, j} : /\ inv[x].fail = "reference already exists"
                                /\ \A s \in Services : ~Wrote(x, s)

\* both invocations created their branch and both wrote the same file of the same environment
C7_Witness ==
  \E i, j \in Invocations : \E s \in Services :
    /\ i # j /\ Created(i) /\ Created(j) /\ inv[i].target = inv[j].target
    /\ Wrote(i, s) /\ Wrote(j, s)
    /\ inv[i].pc = "done" /\ inv[j].pc = "done"

\* an invocation that failed in create_branch made no write and opened no pull request
C8_FailedCreateWritesNothing ==
  \A i \in Invocations :
    inv[i].fail = "reference already exists" =>
      /\ inv[i].pc = "failed" /\ inv[i].at = "create_branch"
      /\ inv[i].branch \in DOMAIN branches
      /\ \A n \in 1..Len(inv[i].ops) : inv[i].ops[n].op = "create_git_ref"
      /\ PullsBy(i) = {}
      /\ CommitsBy(inv[i].branch, i) = <<>>

\* a create_branch step taken while the branch exists fails and changes nothing remote
C8_CreateOnExistingChangesNothing ==
  \A i \in Invocations :
    (inv[i].pc = "create_branch" /\ inv[i].branch \in DOMAIN branches /\ inv'[i] # inv[i]) =>
      /\ branches' = branches
      /\ pulls' = pulls
      /\ inv'[i].pc = "failed" /\ inv'[i].fail = "reference already exists"

(***************************************************************************)
(* C8: create_branch fails when a branch of the computed name exists; the  *)
(* invocation then ends before any file write or pull request, and the     *)
(* existing branch and every file on it are left as they were.             *)
(***************************************************************************)
C8_CreateBranchFailsOnExisting ==
  [] C8_FailedCreateWritesNothing /\ [][C8_CreateOnExistingChangesNothing]_vars

\* the second run of the same action failed in create_branch on a branch the first run had written to
C8_Witness ==
  \E i, j \in Invocations :
    /\ i # j /\ inv[i].fail = "reference already exists"
    /\ inv[j].branch = inv[i].branch /\ Created(j)
    /\ Len(CommitsBy(inv[i].branch, j)) >= 1

(***************************************************************************)
(* get_versions seen from outside                                          *)
(***************************************************************************)
HasTag(params) == \E n \in 1..Len(params) : params[n].name = "image.tag"

LastTag(params) ==
  LET n == CHOOSE n \in 1..Len(params) :
             /\ params[n].name = "image.tag"
             /\ \A m \in (n + 1)..Len(params) : params[m].name # "image.tag"
  IN params[n].value

AfterGetVersions == {"uv_list", "get", "update", "create_pr", "done"}

\* get_versions of push invocation i has returned its mapping
Returned(i) ==
  /\ inv[i].action = "push"
  /\ \/ inv[i].pc \in AfterGetVersions
     \/ inv[i].pc = "failed" /\ inv[i].at \in AfterGetVersions

(***************************************************************************)
(* C4 (as claimed): get_versions fails whenever some service subdirectory  *)
(* lacks its source-tracking file or the file names no image.tag; when it  *)
(* returns, the mapping has an entry for every service subdirectory.       *)
(***************************************************************************)
C4_ReturnsEntryForEveryService ==
  \A i \in Invocations :
    Returned(i) =>
      /\ \A s \in Range(ChartsDir(fixture)) :
           LET f == Track(fixture, s, inv[i].source)
           IN f.kind = "file" /\ HasTag(f.params)
      /\ DOMAIN inv[i].versions = Range(ChartsDir(fixture))

(***************************************************************************)
(* C4 (amended): get_versions fails whenever some service subdirectory     *)
(* lacks its source-tracking file, and only then; a file that names no     *)
(* image.tag does not make it fail.  When it returns, the mapping has an   *)
(* entry exactly for the service subdirectories whose file names           *)
(* image.tag, holding the value of the last such parameter.                *)
(***************************************************************************)
C4_ReturnsEntryForTaggedServices ==
  \A i \in Invocations :
    /\ Returned(i) =>
         /\ \A s \in Range(ChartsDir(fixture)) : Track(fixture, s, inv[i].source).kind = "file"
         /\ DOMAIN inv[i].versions =
              {s \in Range(ChartsDir(fixture)) : HasTag(Track(fixture, s, inv[i].source).params)}
         /\ \A s \in DOMAIN inv[i].versions :
              inv[i].versions[s] = LastTag(Track(fixture, s, inv[i].source).params)
    /\ (inv[i].pc = "failed" /\ inv[i].at = "gv_get") =>
         /\ inv[i].fail = "not found"
         /\ Track(fixture, inv[i].services[inv[i].idx], inv[i].source).kind = "absent"

\* get_versions returned although one chart's tracking file names no image.tag
C4_Witness ==
  \E i \in Invocations : \E s \in Range(ChartsDir(fixture)) :
    /\ Returned(i)
    /\ Track(fixture, s, inv[i].source).kind = "file"
    /\ ~HasTag(Track(fixture, s, inv[i].source).params)
    /\ s \notin DOMAIN inv[i].versions

(***************************************************************************)
(* C10: in a push, a target entry with no key in the mapping (its service  *)
(* absent from helm-charts, or its tracking file without image.tag) stops  *)
(* the run at that entry: no write for it or any later entry, the earlier  *)
(* entries already committed, no pull request.  A push completes only if   *)
(* every entry of the target environment has a key in the mapping.         *)
(***************************************************************************)
NoKeyFor(source, s) ==
  \/ s \notin Range(ChartsDir(fixture))
  \/ /\ Track(fixture, s, source).kind = "file"
     /\ ~HasTag(Track(fixture, s, source).params)

C10_PushStopsAtEntryWithoutVersion ==
  \A i \in Invocations :
    inv[i].action = "push" =>
      LET entries == EnvDir(fixture, inv[i].target)
      IN /\ Returned(i) =>
              \A s \in Range(entries) : s \in DOMAIN inv[i].versions <=> ~NoKeyFor(inv[i].source, s)
         /\ \A n \in 1..Len(entries) :
              NoKeyFor(inv[i].source, entries[n]) =>
                /\ ~Wrote(i, entries[n])
                /\ PullsBy(i) = {}
                /\ inv[i].pc \notin {"create_pr", "done"}
                /\ InLoop(i) => inv[i].idx <= n
                /\ (InLoop(i) /\ inv[i].idx = n /\ inv[i].pc # "get") =>
                     /\ inv[i].pc = "failed" /\ inv[i].at = "get"
                     /\ inv[i].services[n] = entries[n]
                     /\ branches[inv[i].branch].log = FirstCommits(i, n - 1)
                     /\ \A m \in n..Len(entries) : ~Wrote(i, entries[m])
         /\ inv[i].pc = "done" => \A s \in Range(entries) : s \in DOMAIN inv[i].versions

\* a push ended at its second entry on the missing key, the first entry committed
C10_Witness ==
  \E i \in Invocations :
    /\ inv[i].action = "push" /\ inv[i].pc = "failed" /\ inv[i].at = "get"
    /\ inv[i].fail = "key error" /\ inv[i].idx = 2
    /\ inv[i].services[2] \notin DOMAIN inv[i].versions
    /\ Manifests(fixture)[FilePath(inv[i].target, inv[i].services[2])].kind = "file"
    /\ Manifests(fixture)[FilePath(inv[i].target, inv[i].services[2])].hasParams
    /\ Len(branches[inv[i].branch].log) = 1
    /\ PullsBy(i) = {}

(***************************************************************************)
(* The edits in sequence: edit n took the file hist[n] to hist[n + 1]      *)
(***************************************************************************)
Applied(n, op) == n \in 1..Len(ed.log) /\ ed.log[n].op = op /\ ~ed.log[n].raised

\* pause at edit n, resume right after it
PauseThenResume(n) == Applied(n, "pause") /\ Applied(n + 1, "resume")

IsTag(p) == p.name = "image.tag"

NotTag(p) == p.name # "image.tag"

(***************************************************************************)
(* C2 (as claimed): pause followed by resume on the same manifest restores *)
(* the annotation map to its original value, also when the map already     *)
(* held the service's ignore-tags key before pause.                        *)
(***************************************************************************)
C2_PauseResumeRestoresAnnotations ==
  \A n \in 1..Len(ed.log) :
    PauseThenResume(n) => ed.hist[n + 2].ann = ed.hist[n].ann

(***************************************************************************)
(* C2 (amended): pause followed by resume on the same manifest yields the  *)
(* original annotation map without the service's ignore-tags key, every    *)
(* other key keeping its value: the map is restored when it did not hold   *)
(* that key before pause, and has lost the key when it did.                *)
(***************************************************************************)
C2_PauseResumeDropsOnlyTheKey ==
  \A n \in 1..Len(ed.log) :
    PauseThenResume(n) =>
      LET before == ed.hist[n].ann
          after == ed.hist[n + 2].ann
      IN /\ DOMAIN after = (DOMAIN before) \ {Key(ed.service)}
         /\ \A k \in DOMAIN after : after[k] = before[k]
         /\ Key(ed.service) \notin DOMAIN before => after = before
         /\ ed.hist[n + 1].ann[Key(ed.service)] = "*"

\* pause then resume ran on a manifest that already held the key, next to other keys
C2_Witness ==
  \E n \in 1..Len(ed.log) :
    /\ PauseThenResume(n)
    /\ Key(ed.service) \in DOMAIN ed.hist[n].ann
    /\ OtherKey \in DOMAIN ed.hist[n].ann
    /\ ed.hist[n + 2].ann # ed.hist[n].ann

C9_EditsIdempotent ==
  \A n \in 1..Len(ed.log) :
    /\ (/\ ~ed.log[n].raised /\ n < Len(ed.log)
        /\ ed.log[n + 1].op = ed.log[n].op
        /\ ed.log[n + 1].versions = ed.log[n].versions)
       => ~ed.log[n + 1].raised /\ ed.hist[n + 2] = ed.hist[n + 1]
    /\ (ed.log[n].op = "resume" /\ ed.hist[n].hasAnn) => ~ed.log[n].raised

\* resume ran twice on a manifest whose annotations never held the key
C9_Witness ==
  \E n \in 1..Len(ed.log) :
    /\ Applied(n, "resume") /\ Applied(n + 1, "resume")
    /\ Key(ed.service) \notin DOMAIN ed.hist[n].ann
    /\ ed.hist[n + 2] = ed.hist[n + 1]
    /\ ed.hist[n + 1] # ed.hist[n]

====
